---- MODULE Spec2Model ----
(***************************************************************************)
(* Model of fix_lammps_types.py: reorder the atom types of a LAMMPS data   *)
(* file by atomic number.                                                  *)
(*                                                                         *)
(* A file is a sequence of lines.  A line is the sequence of its           *)
(* whitespace-separated tokens, a flag telling whether it ends with a      *)
(* newline (only the last line of a file may lack one) and its whitespace  *)
(* layout ("raw" = as found in the input, "fixed" = the fixed-width layout *)
(* the writer produces).  A token is an integer literal, a decimal         *)
(* literal, a '#' comment marker or a word.  Masses are held in            *)
(* thousandths of a mass unit, so that the 1.0 tolerance is 1000.          *)
(***************************************************************************)
EXTENDS Integers, Sequences, FiniteSets, TLC

VARIABLES
    file,                     \* the input path: [exists, data]
    out,                      \* the output path: [exists, data]
    out0,                     \* the output path as it was before the run
    pc,                       \* position of the run
    err,                      \* the error the run reported, or "none"
    lines,                    \* f.readlines()
    masses_start,             \* 0-based index of the Masses header, or -1
    atoms_start,              \* 0-based index of the Atoms header, or -1
    current_type_to_element,  \* dict, as its items in insertion order
    warned,                   \* 0-based indices of Masses lines that printed a warning
    type_mapping,             \* dict old type -> new type
    new_type_to_element,      \* dict new type -> element
    run,                      \* 1: first run, 2: the run on the first run's output
    prev_type_to_element      \* new_type_to_element of the first run

vars == <<file, out, out0, pc, err, lines, masses_start, atoms_start,
          current_type_to_element, warned, type_mapping, new_type_to_element,
          run, prev_type_to_element>>

----------------------------------------------------------------------------
(* Bounds of the explored inputs *)

MaxMassLines == 3
MaxAtomLines == 2
MaxScanLines == 3

----------------------------------------------------------------------------
(* ELEMENT_DATA, in the dict's iteration order; mass in 1/1000 units *)

ELEMENT_DATA ==
    << [element |-> "H",  ref_mass |-> 1008,   z |-> 1],
       [element |-> "He", ref_mass |-> 4003,   z |-> 2],
       [element |-> "C",  ref_mass |-> 12011,  z |-> 6],
       [element |-> "N",  ref_mass |-> 14007,  z |-> 7],
       [element |-> "O",  ref_mass |-> 15999,  z |-> 8],
       [element |-> "Al", ref_mass |-> 26982,  z |-> 13],
       [element |-> "Ti", ref_mass |-> 47867,  z |-> 22],
       [element |-> "Cr", ref_mass |-> 51996,  z |-> 24],
       [element |-> "Fe", ref_mass |-> 55845,  z |-> 26],
       [element |-> "Ni", ref_mass |-> 58693,  z |-> 28],
       [element |-> "Cu", ref_mass |-> 63546,  z |-> 29],
       [element |-> "Mo", ref_mass |-> 95950,  z |-> 42],
       [element |-> "W",  ref_mass |-> 183840, z |-> 74] >>

Tolerance == 1000

Abs(x) == IF x < 0 THEN -x ELSE x

Min(S) == CHOOSE x \in S : \A y \in S : x <= y

EntryOf(element) ==
    ELEMENT_DATA[CHOOSE i \in 1..Len(ELEMENT_DATA) : ELEMENT_DATA[i].element = element]

\* an identify_element that reports an unknown mass with another exception
identify_element_KeyError(mass) ==
    LET hits == {i \in 1..Len(ELEMENT_DATA) :
                    Abs(mass - ELEMENT_DATA[i].ref_mass) < Tolerance}
    IN  IF hits = {} THEN [exc |-> "KeyError", element |-> ""]
        ELSE [exc |-> "none", element |-> ELEMENT_DATA[Min(hits)].element]

\* identify_element: the first entry within the tolerance, else ValueError
identify_element(mass) ==
    LET hits == {i \in 1..Len(ELEMENT_DATA) :
                    Abs(mass - ELEMENT_DATA[i].ref_mass) < Tolerance}
    IN  IF hits = {} THEN [exc |-> "ValueError", element |-> ""]
        ELSE [exc |-> "none", element |-> ELEMENT_DATA[Min(hits)].element]

get_atomic_number(element) == EntryOf(element).z

----------------------------------------------------------------------------
(* Tokens and lines *)

\* an integer literal; d counts leading zeros of its text ("007": d = 2)
IntTok(v, d) == [k |-> "int", v |-> v, d |-> d, w |-> ""]
\* a decimal literal of value v/1000 printed with d decimals
DecTok(v, d) == [k |-> "dec", v |-> v, d |-> d, w |-> ""]
Word(w)      == [k |-> "word", v |-> 0, d |-> 0, w |-> w]
Hash         == [k |-> "hash", v |-> 0, d |-> 0, w |-> "#"]

RawLine(toks)   == [toks |-> toks, nl |-> TRUE, ws |-> "raw"]
FixedLine(toks) == [toks |-> toks, nl |-> TRUE, ws |-> "fixed"]

\* the chunk '\n'
Newline == FixedLine(<< >>)

\* int(tok)
ParseInt(tok) ==
    IF tok.k = "int" THEN [exc |-> "none", val |-> tok.v]
    ELSE [exc |-> "ValueError", val |-> 0]

\* float(tok), in 1/1000 units
ParseFloat(tok) ==
    IF tok.k = "int" THEN [exc |-> "none", val |-> tok.v * 1000]
    ELSE IF tok.k = "dec" THEN [exc |-> "none", val |-> tok.v]
    ELSE [exc |-> "ValueError", val |-> 0]

\* f"{n}" / f"{n:6d}": the canonical text of an integer
FormatInt(n) == IntTok(n, 0)

\* f"{mass:.8f}"
FormatMass(mass) == DecTok(mass, 8)

\* words of the vocabulary that start with the keyword
StartsWithMasses(tok) == tok.k = "word" /\ tok.w \in {"Masses", "Masses:"}
StartsWithAtoms(tok)  == tok.k = "word" /\ tok.w \in {"Atoms", "Atomsk"}

\* not line.strip()
IsBlank(line) == line.toks = << >>

\* line.strip().startswith('#')
IsComment(line) == line.toks # << >> /\ line.toks[1].k = "hash"

\* line_stripped == 'Masses' or (startswith('Masses') and one token)
IsMassesHeader(line) ==
    \/ line.toks = << Word("Masses") >>
    \/ (line.toks # << >> /\ StartsWithMasses(line.toks[1]) /\ Len(line.toks) = 1)

\* line_stripped.startswith('Atoms')
IsAtomsHeader(line) == line.toks # << >> /\ StartsWithAtoms(line.toks[1])

\* line.split('#')[0].split(): the tokens before the first '#'
RECURSIVE BeforeHash(_)
BeforeHash(toks) ==
    IF toks = << >> \/ toks[1].k = "hash" THEN << >>
    ELSE << toks[1] >> \o BeforeHash(Tail(toks))

----------------------------------------------------------------------------
(* Files on disk *)

NoFile == [exists |-> FALSE, data |-> << >>]
FileOf(data) == [exists |-> TRUE, data |-> data]

\* f.write(chunk): a chunk written after an unterminated line continues it
Write(stream, chunk) ==
    IF stream # << >> /\ ~stream[Len(stream)].nl
    THEN [stream EXCEPT ![Len(stream)] =
            [toks |-> @.toks \o chunk.toks, nl |-> chunk.nl, ws |-> @.ws]]
    ELSE Append(stream, chunk)

RECURSIVE WriteAll(_, _)
WriteAll(stream, chunks) ==
    IF chunks = << >> THEN stream
    ELSE WriteAll(Write(stream, chunks[1]), Tail(chunks))

----------------------------------------------------------------------------
(* The inputs explored *)

SeqUpTo(S, n) == UNION {[1..k -> S] : k \in 0..n}

Title      == RawLine(<< Word("LAMMPS"), Word("data") >>)
BlankLine  == RawLine(<< >>)
CommentLn  == RawLine(<< Hash, Word("note") >>)
TitleAtomsk == RawLine(<< Word("Atomsk"), Word("data") >>)
HdrMasses  == RawLine(<< Word("Masses") >>)
HdrMasses1 == RawLine(<< Word("Masses:") >>)
HdrMasses3 == RawLine(<< Word("Masses"), Hash, Word("amu") >>)
HdrAtoms   == RawLine(<< Word("Atoms") >>)
HdrAtoms3  == RawLine(<< Word("Atoms"), Hash, Word("atomic") >>)

M_Al1   == RawLine(<< IntTok(1, 0), DecTok(26982, 3), Hash, Word("Al") >>)
M_W1    == RawLine(<< IntTok(1, 0), DecTok(183840, 2) >>)
M_Al2   == RawLine(<< IntTok(2, 0), DecTok(27500, 1) >>)
M_H3    == RawLine(<< IntTok(3, 0), IntTok(1, 0) >>)
M_Unk3  == RawLine(<< IntTok(3, 0), DecTok(27982, 3) >>)
M_Bad   == RawLine(<< Word("abc"), Word("notanumber") >>)
M_Short == RawLine(<< IntTok(2, 0), Hash, DecTok(183840, 2) >>)

MassPool == {M_Al1, M_W1, M_Al2, M_H3, M_Unk3, M_Bad, M_Short, BlankLine}

X == DecTok(1000, 1)
Y == DecTok(2000, 1)
Z == DecTok(3000, 1)
Q == DecTok(500, 1)

A_5     == RawLine(<< IntTok(7, 0), IntTok(1, 0), X, Y, Z >>)
A_5b    == RawLine(<< IntTok(8, 0), IntTok(2, 0), X, Y, Z >>)
A_4     == RawLine(<< IntTok(8, 0), IntTok(2, 0), X, Y >>)
A_6     == RawLine(<< IntTok(7, 2), IntTok(2, 0), X, Y, Z, Q >>)
A_Unmap == RawLine(<< IntTok(9, 0), IntTok(5, 0), X, Y >>)
A_3     == RawLine(<< IntTok(3, 0), IntTok(1, 0), X >>)
A_Bad   == RawLine(<< Word("x"), IntTok(1, 0), X, Y, Z >>)

AtomPool == {A_5, A_4, A_6, A_Unmap, A_3, A_Bad, BlankLine, CommentLn}

ScanPool == {TitleAtomsk, HdrMasses, HdrMasses1, HdrMasses3, HdrAtoms, HdrAtoms3, M_Al1}

\* the same lines, the last one with or without its newline
EndNl(data, b) ==
    IF data = << >> THEN data
    ELSE [data EXCEPT ![Len(data)] = [@ EXCEPT !.nl = b]]

MassRich ==
    { <<Title, HdrMasses>> \o m \o <<HdrAtoms, BlankLine, A_5, A_5b>> :
        m \in SeqUpTo(MassPool, MaxMassLines) }

AtomRich ==
    { <<Title, HdrMasses, CommentLn, M_W1, M_Al2, BlankLine, HdrAtoms3>> \o a :
        a \in SeqUpTo(AtomPool, MaxAtomLines) }

ScanRich == SeqUpTo(ScanPool, MaxScanLines)

\* the files that end with a rewritten atom line, and the others with and
\* without a newline at the end
Inputs == MassRich \cup {EndNl(d, b) : d \in AtomRich \cup ScanRich, b \in BOOLEAN}

OldOutput == FileOf(<< RawLine(<< Word("old") >>) >>)

NoDict == << >>

Init ==
    /\ file \in {FileOf(d) : d \in Inputs} \cup {NoFile}
    /\ out \in {NoFile, OldOutput}
    /\ out0 = out
    /\ pc = "Idle"
    /\ err = "none"
    /\ lines = << >>
    /\ masses_start = -1
    /\ atoms_start = -1
    /\ current_type_to_element = NoDict
    /\ warned = {}
    /\ type_mapping = NoDict
    /\ new_type_to_element = NoDict
    /\ run = 1
    /\ prev_type_to_element = NoDict

----------------------------------------------------------------------------
(* Reading *)

\* with open(input_file) as f: lines = f.readlines()
ReadFile ==
    /\ pc = "Idle"
    /\ file.exists
    /\ lines' = file.data
    /\ pc' = "Reading"
    /\ UNCHANGED <<file, out, out0, err, masses_start, atoms_start,
                   current_type_to_element, warned, type_mapping,
                   new_type_to_element, run, prev_type_to_element>>

\* open() raises: nothing catches it
OpenFails ==
    /\ pc = "Idle"
    /\ ~file.exists
    /\ pc' = "Crashed"
    /\ err' = "FileNotFoundError"
    /\ UNCHANGED <<file, out, out0, lines, masses_start, atoms_start,
                   current_type_to_element, warned, type_mapping,
                   new_type_to_element, run, prev_type_to_element>>

Ln(i) == lines[i + 1]

----------------------------------------------------------------------------
(* Section locator *)

\* the loop over enumerate(lines) from index i on, masses_start being ms
RECURSIVE Scan(_, _)
Scan(i, ms) ==
    IF i >= Len(lines) THEN [masses_start |-> ms, atoms_start |-> -1]
    ELSE IF IsMassesHeader(Ln(i)) THEN Scan(i + 1, i)
    ELSE IF IsAtomsHeader(Ln(i)) THEN [masses_start |-> ms, atoms_start |-> i]
    ELSE Scan(i + 1, ms)

Located == Scan(0, -1)

LocateSections ==
    /\ pc = "Reading"
    /\ Located.masses_start # -1 /\ Located.atoms_start # -1
    /\ masses_start' = Located.masses_start
    /\ atoms_start' = Located.atoms_start
    /\ pc' = "SectionsLocated"
    /\ UNCHANGED <<file, out, out0, err, lines, current_type_to_element, warned,
                   type_mapping, new_type_to_element, run, prev_type_to_element>>

SectionNotFound ==
    /\ pc = "Reading"
    /\ Located.masses_start = -1 \/ Located.atoms_start = -1
    /\ masses_start' = Located.masses_start
    /\ atoms_start' = Located.atoms_start
    /\ pc' = "Failed"
    /\ err' = "SectionNotFound"
    /\ UNCHANGED <<file, out, out0, lines, current_type_to_element, warned,
                   type_mapping, new_type_to_element, run, prev_type_to_element>>

----------------------------------------------------------------------------
(* Masses parser *)

\* dict.setdefault(key, value): an old key keeps its value
DictSet_FirstWins(dict, type_id, element) ==
    IF \E j \in 1..Len(dict) : dict[j].type_id = type_id
    THEN dict
    ELSE Append(dict, [type_id |-> type_id, element |-> element])

\* dict[key] = value: a new key goes last, an old key keeps its place
DictSet(dict, type_id, element) ==
    IF \E j \in 1..Len(dict) : dict[j].type_id = type_id
    THEN [j \in 1..Len(dict) |->
            IF dict[j].type_id = type_id
            THEN [type_id |-> type_id, element |-> element]
            ELSE dict[j]]
    ELSE Append(dict, [type_id |-> type_id, element |-> element])

Keys(dict) == {dict[j].type_id : j \in 1..Len(dict)}

Get(dict, type_id) ==
    dict[CHOOSE j \in 1..Len(dict) : dict[j].type_id = type_id].element

\* a guard that catches IndexError only
CaughtInMasses_IndexErrorOnly(exc) == exc \in {"IndexError"}

\* except (ValueError, IndexError) of the Masses loop
CaughtInMasses(exc) == exc \in {"ValueError", "IndexError"}

\* the body of the try: int(parts[0]), float(parts[1]), identify_element
TryMass(parts) ==
    LET t == ParseInt(parts[1])
        m == ParseFloat(parts[2])
        e == identify_element(m.val)
    IN  IF t.exc # "none" THEN [exc |-> t.exc, type_id |-> 0, element |-> ""]
        ELSE IF m.exc # "none" THEN [exc |-> m.exc, type_id |-> 0, element |-> ""]
        ELSE IF e.exc # "none" THEN [exc |-> e.exc, type_id |-> 0, element |-> ""]
        ELSE [exc |-> "none", type_id |-> t.val, element |-> e.element]

\* one iteration of the Masses loop on line i
MassStep(st, i) ==
    LET line  == Ln(i)
        parts == BeforeHash(line.toks)
        r     == TryMass(parts)
    IN  IF IsBlank(line) \/ IsComment(line) THEN st
        ELSE IF Len(parts) >= 2
        THEN IF r.exc = "none"
             THEN [st EXCEPT !.dict = DictSet(st.dict, r.type_id, r.element)]
             ELSE IF CaughtInMasses(r.exc)
             THEN [st EXCEPT !.warned = st.warned \cup {i}]
             ELSE [st EXCEPT !.exc = r.exc]
        ELSE st

\* for i in range(from, to), until an exception escapes
RECURSIVE MassLoop(_, _, _)
MassLoop(st, from, to) ==
    IF from >= to \/ st.exc # "none" THEN st
    ELSE MassLoop(MassStep(st, from), from + 1, to)

Parsed ==
    MassLoop([dict |-> NoDict, warned |-> {}, exc |-> "none"],
             masses_start + 1, atoms_start)

ParseMasses ==
    /\ pc = "SectionsLocated"
    /\ Parsed.exc # "none" \/ Parsed.dict # NoDict
    /\ current_type_to_element' = Parsed.dict
    /\ warned' = Parsed.warned
    /\ IF Parsed.exc # "none"
       THEN pc' = "Crashed" /\ err' = Parsed.exc
       ELSE pc' = "MassesParsed" /\ err' = err
    /\ UNCHANGED <<file, out, out0, lines, masses_start, atoms_start,
                   type_mapping, new_type_to_element, run, prev_type_to_element>>

\* an EmptyMasses reached with the output file already opened for writing
EmptyMasses_Truncates ==
    /\ pc = "SectionsLocated"
    /\ Parsed.exc = "none" /\ Parsed.dict = NoDict
    /\ current_type_to_element' = Parsed.dict
    /\ warned' = Parsed.warned
    /\ pc' = "Failed"
    /\ err' = "EmptyMasses"
    /\ out' = FileOf(<< >>)
    /\ UNCHANGED <<file, out0, lines, masses_start, atoms_start,
                   type_mapping, new_type_to_element, run, prev_type_to_element>>

\* if not current_type_to_element: report and return
EmptyMasses ==
    /\ pc = "SectionsLocated"
    /\ Parsed.exc = "none" /\ Parsed.dict = NoDict
    /\ current_type_to_element' = Parsed.dict
    /\ warned' = Parsed.warned
    /\ pc' = "Failed"
    /\ err' = "EmptyMasses"
    /\ UNCHANGED <<file, out, out0, lines, masses_start, atoms_start,
                   type_mapping, new_type_to_element, run, prev_type_to_element>>

----------------------------------------------------------------------------
(* Type mapping builder *)

\* an insertion for a descending order (reverse=True)
RECURSIVE InsertByZ_Descending(_, _)
InsertByZ_Descending(s, x) ==
    IF s = << >> THEN << x >>
    ELSE IF get_atomic_number(s[Len(s)].element) >= get_atomic_number(x.element)
    THEN Append(s, x)
    ELSE Append(InsertByZ_Descending(SubSeq(s, 1, Len(s) - 1), x), s[Len(s)])

\* an insertion that puts x before the items of the same atomic number
RECURSIVE InsertByZ_Unstable(_, _)
InsertByZ_Unstable(s, x) ==
    IF s = << >> THEN << x >>
    ELSE IF get_atomic_number(s[Len(s)].element) < get_atomic_number(x.element)
    THEN Append(s, x)
    ELSE Append(InsertByZ_Unstable(SubSeq(s, 1, Len(s) - 1), x), s[Len(s)])

\* insert x after every item whose atomic number is not larger
RECURSIVE InsertByZ(_, _)
InsertByZ(s, x) ==
    IF s = << >> THEN << x >>
    ELSE IF get_atomic_number(s[Len(s)].element) <= get_atomic_number(x.element)
    THEN Append(s, x)
    ELSE Append(InsertByZ(SubSeq(s, 1, Len(s) - 1), x), s[Len(s)])

\* sorted(items, key=lambda x: get_atomic_number(x[1])): stable, ascending
RECURSIVE sorted(_)
sorted(items) ==
    IF items = << >> THEN << >>
    ELSE InsertByZ(sorted(SubSeq(items, 1, Len(items) - 1)), items[Len(items)])

elements_sorted == sorted(current_type_to_element)

BuildMapping ==
    /\ pc = "MassesParsed"
    /\ type_mapping' =
         [t \in Keys(elements_sorted) |->
            CHOOSE n \in 1..Len(elements_sorted) : elements_sorted[n].type_id = t]
    /\ new_type_to_element' =
         [n \in 1..Len(elements_sorted) |-> elements_sorted[n].element]
    /\ pc' = "MappingBuilt"
    /\ UNCHANGED <<file, out, out0, err, lines, masses_start, atoms_start,
                   current_type_to_element, warned, run, prev_type_to_element>>

----------------------------------------------------------------------------
(* File rewriter *)

\* with open(output_file, 'w'): creates or truncates the file
OpenOutput ==
    /\ pc = "MappingBuilt"
    /\ out' = FileOf(<< >>)
    /\ pc' = "Writing"
    /\ UNCHANGED <<file, out0, err, lines, masses_start, atoms_start,
                   current_type_to_element, warned, type_mapping,
                   new_type_to_element, run, prev_type_to_element>>

\* a Masses line that takes the other field of the ELEMENT_DATA entry
MassesLine_Z(new_type) ==
    FixedLine(<< FormatInt(new_type),
                 FormatMass(EntryOf(new_type_to_element[new_type]).z),
                 Hash,
                 Word(new_type_to_element[new_type]) >>)

\* the Masses line of a new type
MassesLine(new_type) ==
    FixedLine(<< FormatInt(new_type),
                 FormatMass(EntryOf(new_type_to_element[new_type]).ref_mass),
                 Hash,
                 Word(new_type_to_element[new_type]) >>)

\* for new_type in sorted(new_type_to_element.keys())
MassesBlock == [n \in 1..Len(new_type_to_element) |-> MassesLine(n)]

\* except (ValueError, IndexError) of the Atoms loop
CaughtInAtoms(exc) == exc \in {"ValueError", "IndexError"}

\* the chunks the try of the Atoms loop writes for a line of >= 4 tokens
TryAtom(line) ==
    LET parts    == line.toks
        atom_id  == ParseInt(parts[1])
        old_type == ParseInt(parts[2])
        coords   == SubSeq(parts, 3, Len(parts))
    IN  IF atom_id.exc # "none" THEN [exc |-> atom_id.exc, chunks |-> << >>]
        ELSE IF old_type.exc # "none" THEN [exc |-> old_type.exc, chunks |-> << >>]
        ELSE IF old_type.val \in DOMAIN type_mapping
        THEN IF Len(coords) < 3
             THEN [exc |-> "IndexError", chunks |-> << >>]
             ELSE [exc |-> "none",
                   chunks |->
                     << [toks |-> << FormatInt(atom_id.val),
                                     FormatInt(type_mapping[old_type.val]),
                                     coords[1], coords[2], coords[3] >>,
                         nl |-> FALSE, ws |-> "fixed"] >>
                     \o (IF Len(coords) > 3
                         THEN << [toks |-> SubSeq(coords, 4, Len(coords)),
                                  nl |-> FALSE, ws |-> "fixed"] >>
                         ELSE << >>)
                     \o << Newline >>]
        ELSE [exc |-> "none", chunks |-> << line >>]

\* one iteration of the Atoms loop
AtomStep(line) ==
    IF IsBlank(line) \/ IsComment(line) THEN [exc |-> "none", chunks |-> << >>]
    ELSE IF Len(line.toks) >= 4
    THEN IF CaughtInAtoms(TryAtom(line).exc)
         THEN [exc |-> "none", chunks |-> << >>]
         ELSE TryAtom(line)
    ELSE [exc |-> "none", chunks |-> << >>]

\* for i in range(from, len(lines)), until an exception escapes
RECURSIVE AtomLoop(_, _)
AtomLoop(st, from) ==
    IF from >= Len(lines) \/ st.exc # "none" THEN st
    ELSE AtomLoop([exc |-> AtomStep(Ln(from)).exc,
                   stream |-> WriteAll(st.stream, AtomStep(Ln(from)).chunks)],
                  from + 1)

\* what the body of the with block leaves in the file
Written ==
    LET s1 == WriteAll(<< >>, SubSeq(lines, 1, masses_start + 1))
        s2 == Write(s1, Newline)
        s3 == WriteAll(s2, MassesBlock)
        s4 == Write(s3, Newline)
        s5 == Write(s4, Ln(atoms_start))
        s6 == Write(s5, Newline)
    IN  AtomLoop([exc |-> "none", stream |-> s6], atoms_start + 1)

WriteOutput ==
    /\ pc = "Writing"
    /\ out' = FileOf(Written.stream)
    /\ IF Written.exc # "none"
       THEN pc' = "Crashed" /\ err' = Written.exc
       ELSE pc' = "Done" /\ err' = err
    /\ UNCHANGED <<file, out0, lines, masses_start, atoms_start,
                   current_type_to_element, warned, type_mapping,
                   new_type_to_element, run, prev_type_to_element>>

----------------------------------------------------------------------------
(* A second run, on the output of the first *)

Rerun ==
    /\ pc = "Done"
    /\ run = 1
    /\ file' = out
    /\ out' = NoFile
    /\ out0' = NoFile
    /\ pc' = "Idle"
    /\ lines' = << >>
    /\ masses_start' = -1
    /\ atoms_start' = -1
    /\ current_type_to_element' = NoDict
    /\ warned' = {}
    /\ type_mapping' = NoDict
    /\ new_type_to_element' = NoDict
    /\ run' = 2
    /\ prev_type_to_element' = new_type_to_element
    /\ UNCHANGED err

Next ==
    \/ ReadFile
    \/ OpenFails
    \/ LocateSections
    \/ SectionNotFound
    \/ ParseMasses
    \/ EmptyMasses
    \/ BuildMapping
    \/ OpenOutput
    \/ WriteOutput
    \/ Rerun

Spec == Init /\ [][Next]_vars

----------------------------------------------------------------------------
(* The input as the claims describe it, read off the lines directly *)

\* the Masses loop has run to its end
MassesRead ==
    \/ pc \in {"MassesParsed", "MappingBuilt", "Writing", "Done"}
    \/ pc = "Failed" /\ err = "EmptyMasses"
    \/ pc = "Crashed" /\ err # "FileNotFoundError"

MappingStates == {"MappingBuilt", "Writing", "Done"}

\* 0-based indices of the lines strictly between the two headers
Block == {i \in 0..(Len(lines) - 1) : masses_start < i /\ i < atoms_start}

\* non-blank, non-comment lines of the block
Candidate(i) == Ln(i).toks # << >> /\ Ln(i).toks[1].k # "hash"

Fields(i) == BeforeHash(Ln(i).toks)

IsNumber(tok) == tok.k \in {"int", "dec"}
NumVal(tok) == IF tok.k = "int" THEN tok.v * 1000 ELSE tok.v

Resolves(m) ==
    \E j \in 1..Len(ELEMENT_DATA) : Abs(m - ELEMENT_DATA[j].ref_mass) < Tolerance

\* wrong token count: fewer than two tokens before any '#'
ShortLine(i) == Candidate(i) /\ Len(Fields(i)) < 2

\* a type ID or mass field that is not a number
NonNumericLine(i) ==
    /\ Candidate(i) /\ Len(Fields(i)) >= 2
    /\ (Fields(i)[1].k # "int" \/ ~IsNumber(Fields(i)[2]))

\* an integer type ID and a numeric mass
NumericLine(i) ==
    /\ Candidate(i) /\ Len(Fields(i)) >= 2
    /\ Fields(i)[1].k = "int" /\ IsNumber(Fields(i)[2])

UnknownMassLine(i) == NumericLine(i) /\ ~Resolves(NumVal(Fields(i)[2]))

ValidLine(i) == NumericLine(i) /\ Resolves(NumVal(Fields(i)[2]))

ValidLines == {i \in Block : ValidLine(i)}

TypeAt(i) == Fields(i)[1].v
MassAt(i) == NumVal(Fields(i)[2])

\* the element of a valid line: the first table entry within the tolerance
ElementAt(i) ==
    ELEMENT_DATA[CHOOSE j \in 1..Len(ELEMENT_DATA) :
        /\ Abs(MassAt(i) - ELEMENT_DATA[j].ref_mass) < Tolerance
        /\ \A k \in 1..(j - 1) : Abs(MassAt(i) - ELEMENT_DATA[k].ref_mass) >= Tolerance
    ].element

DeclaredTypes == {TypeAt(i) : i \in ValidLines}

FirstValid(t) == CHOOSE i \in ValidLines :
    TypeAt(i) = t /\ \A j \in ValidLines : TypeAt(j) = t => i <= j

LastValid(t) == CHOOSE i \in ValidLines :
    TypeAt(i) = t /\ \A j \in ValidLines : TypeAt(j) = t => j <= i

ZOf(element) ==
    ELEMENT_DATA[CHOOSE j \in 1..Len(ELEMENT_DATA) : ELEMENT_DATA[j].element = element].z

RefMassOf(element) ==
    ELEMENT_DATA[CHOOSE j \in 1..Len(ELEMENT_DATA) : ELEMENT_DATA[j].element = element].ref_mass

----------------------------------------------------------------------------
(* C1 *)

\* C1: once the mapping is built, its keys are exactly the type IDs of the
\* valid Masses lines, its values are exactly 1..N, atomic numbers do not
\* decrease with the new ID, and types of one element keep the order in
\* which they were first declared.
C1_ByZMapping ==
    pc \in MappingStates =>
        LET N == Cardinality(DeclaredTypes) IN
        /\ N >= 1
        /\ DOMAIN type_mapping = DeclaredTypes
        /\ {type_mapping[t] : t \in DeclaredTypes} = 1..N
        /\ DOMAIN new_type_to_element = 1..N
        /\ \A i, j \in 1..N :
              i < j => ZOf(new_type_to_element[i]) <= ZOf(new_type_to_element[j])
        /\ \A a, b \in DeclaredTypes :
              (/\ new_type_to_element[type_mapping[a]] = new_type_to_element[type_mapping[b]]
               /\ FirstValid(a) < FirstValid(b))
              => type_mapping[a] < type_mapping[b]

\* two types of one element declared in descending ID order, and a third
\* type of a lighter element declared after them
C1_Witness ==
    /\ pc = "MappingBuilt" /\ run = 1
    /\ \E a, b \in DOMAIN type_mapping :
          /\ a > b /\ FirstValid(a) < FirstValid(b)
          /\ new_type_to_element[type_mapping[a]] = new_type_to_element[type_mapping[b]]
          /\ type_mapping[a] < type_mapping[b]
    /\ \E c \in DOMAIN type_mapping : type_mapping[c] = 1 /\ c = 3

----------------------------------------------------------------------------
(* C2 *)

\* a line after the Atoms header that is non-blank, non-comment, has at
\* least 4 tokens and whose first two tokens are integers
AtomRecord(i) ==
    /\ Candidate(i) /\ Len(Ln(i).toks) >= 4
    /\ Ln(i).toks[1].k = "int" /\ Ln(i).toks[2].k = "int"

\* the output line the claim gives such a record
ExpectedLine(i) ==
    IF Ln(i).toks[2].v \in DOMAIN type_mapping
    THEN FixedLine(<< IntTok(Ln(i).toks[1].v, 0),
                      IntTok(type_mapping[Ln(i).toks[2].v], 0) >>
                   \o SubSeq(Ln(i).toks, 3, Len(Ln(i).toks)))
    ELSE Ln(i)

RECURSIVE ExpectedAtoms(_)
ExpectedAtoms(i) ==
    IF i >= Len(lines) THEN << >>
    ELSE (IF AtomRecord(i) THEN << ExpectedLine(i) >> ELSE << >>)
         \o ExpectedAtoms(i + 1)

\* 1-based position of the Atoms header in the output
HeaderAt == masses_start + Len(new_type_to_element) + 4

\* the output lines after the Atoms header and the newline written after it
AtomsOut ==
    SubSeq(out.data,
           HeaderAt + (IF Ln(atoms_start).nl THEN 2 ELSE 1),
           Len(out.data))

\* C2: on a completed run the lines written after the Atoms header are, in
\* order, exactly one line per atom record of the input: the rewritten
\* record when its type is mapped, the input line itself when it is not.
\* (Lines that are not atom records write nothing.)
C2_AtomRecords ==
    pc = "Done" => AtomsOut = ExpectedAtoms(atoms_start + 1)

----------------------------------------------------------------------------
(* C3 *)

\* C3: the run on the first run's output neither fails nor aborts, and the
\* mapping it builds is the identity on the same elements.
C3_Idempotent ==
    run = 2 =>
        /\ pc \notin {"Failed", "Crashed"}
        /\ pc \in MappingStates =>
              /\ \A k \in DOMAIN type_mapping : type_mapping[k] = k
              /\ DOMAIN type_mapping = DOMAIN prev_type_to_element
              /\ new_type_to_element = prev_type_to_element

\* the second run has finished on a file in which several types are one element
C3_Witness ==
    /\ run = 2 /\ pc = "Done"
    /\ \E i, j \in DOMAIN new_type_to_element :
          i < j /\ new_type_to_element[i] = new_type_to_element[j]
    /\ \E i, j \in DOMAIN new_type_to_element :
          new_type_to_element[i] # new_type_to_element[j]

----------------------------------------------------------------------------
(* C4 *)

\* C4: the output path is as it was before the run unless the run is
\* writing or done, which needs both headers, a valid mass entry and the
\* mapping; a run that misses a header or finds no valid entry fails.
C4_NoOutputOnFailure ==
    /\ pc \notin {"Writing", "Done"} => out = out0
    /\ pc \in {"Writing", "Done"} =>
          /\ out.exists
          /\ masses_start >= 0 /\ atoms_start > masses_start
          /\ ValidLines # {}
          /\ DOMAIN type_mapping = DeclaredTypes
    /\ (pc \notin {"Idle", "Reading", "Crashed"}
        /\ (~(\E i \in 1..Len(lines) : IsMassesHeader(lines[i]))
            \/ ~(\E i \in 1..Len(lines) : IsAtomsHeader(lines[i]))))
          => pc = "Failed" /\ err = "SectionNotFound"
    /\ (MassesRead /\ ValidLines = {}) => pc = "Failed" /\ err = "EmptyMasses"

\* a run with no valid mass entry has failed and an older output file exists
C4_Witness ==
    /\ pc = "Failed" /\ err = "EmptyMasses"
    /\ out0 = OldOutput /\ out = OldOutput
    /\ Block # {}

----------------------------------------------------------------------------
(* C5 *)

\* C5 as stated: a Masses line with an integer type ID and a numeric mass
\* that matches no element aborts the run: no mapping, no output.
C5_UnknownMassFatal ==
    (pc \notin {"Idle", "Reading"} /\ \E i \in Block : UnknownMassLine(i))
        => /\ pc \notin {"MassesParsed", "MappingBuilt", "Writing", "Done"}
           /\ out = out0

\* C5 amended: the unknown-mass error is caught by the guard of the Masses
\* loop: the line prints a warning and adds no entry, the run is not
\* aborted, and it fails only when no line of the block is valid.
C5_UnknownMassSkipped ==
    (MassesRead /\ \E i \in Block : UnknownMassLine(i)) =>
        /\ \A i \in Block : UnknownMassLine(i) => i \in warned
        /\ pc # "Crashed"
        /\ Keys(current_type_to_element) = DeclaredTypes
        /\ pc = "Failed" <=> ValidLines = {}

\* a run has completed on a block holding an unknown mass
C5_Witness ==
    /\ pc = "Done" /\ run = 1
    /\ \E i \in Block : UnknownMassLine(i)

----------------------------------------------------------------------------
(* C6 *)

\* a line of the rewritten Masses block for new type n
IsMassesLineOf(line, n) ==
    /\ Len(line.toks) = 4
    /\ line.toks[1] = IntTok(n, 0)
    /\ line.toks[3] = Hash
    /\ line.toks[4] = Word(new_type_to_element[n])
    /\ line.nl

\* C6: the output of a completed run is the input up to the Masses header,
\* a blank line, one Masses line per new type in ascending order, a blank
\* line, the Atoms header verbatim, a blank line, then the atom lines.
C6_Layout ==
    pc = "Done" =>
        LET h == masses_start + 1
            N == Len(new_type_to_element)
            o == out.data
        IN  /\ Len(o) >= h + N + 4
            /\ SubSeq(o, 1, h) = SubSeq(lines, 1, h)
            /\ IsBlank(o[h + 1])
            /\ \A n \in 1..N : IsMassesLineOf(o[h + 1 + n], n)
            /\ IsBlank(o[h + N + 2])
            /\ o[h + N + 3] = Ln(atoms_start)
            /\ IsBlank(o[h + N + 4])
            /\ \A k \in (h + N + 5)..Len(o) :
                  \E i \in (atoms_start + 1)..(Len(lines) - 1) :
                      /\ AtomRecord(i)
                      /\ o[k].toks[1].v = Ln(i).toks[1].v

----------------------------------------------------------------------------
(* C7 *)

----------------------------------------------------------------------------
(* C8 *)

\* C8 as stated: a type declared on several valid lines has the element of
\* the first of them.
C8_FirstWins ==
    pc \in {"MassesParsed", "MappingBuilt", "Writing", "Done"} =>
        \A t \in DeclaredTypes :
            Get(current_type_to_element, t) = ElementAt(FirstValid(t))

\* C8 amended: a type declared on several valid lines has the element of
\* the last of them, in the type-to-element map, in the mapping and in the
\* rewritten Masses block.
C8_LastWins ==
    /\ pc \in {"MassesParsed", "MappingBuilt", "Writing", "Done"} =>
          \A t \in DeclaredTypes :
              Get(current_type_to_element, t) = ElementAt(LastValid(t))
    /\ pc \in MappingStates =>
          \A t \in DeclaredTypes :
              new_type_to_element[type_mapping[t]] = ElementAt(LastValid(t))
    /\ pc = "Done" =>
          \A t \in DeclaredTypes :
              out.data[masses_start + 2 + type_mapping[t]].toks[4]
                  = Word(ElementAt(LastValid(t)))

\* a run has completed on a block that declares a type as two elements
C8_Witness ==
    /\ pc = "Done" /\ run = 1
    /\ \E t \in DeclaredTypes : ElementAt(FirstValid(t)) # ElementAt(LastValid(t))

----------------------------------------------------------------------------
(* C9 *)

\* C9: when a standalone Masses line is followed later by a line starting
\* with Atoms, the locator does not fail, the Masses header precedes the
\* Atoms header and no line starting with Atoms lies between them.
C9_Locator ==
    (pc \notin {"Idle", "Reading"} /\ pc # "Crashed"
     /\ \E i, j \in 1..Len(lines) :
           /\ i < j
           /\ lines[i].toks = << Word("Masses") >>
           /\ lines[j].toks # << >> /\ StartsWithAtoms(lines[j].toks[1]))
        => /\ err # "SectionNotFound"
           /\ 0 <= masses_start /\ masses_start < atoms_start
           /\ StartsWithAtoms(Ln(atoms_start).toks[1])
           /\ \A k \in Block : Ln(k).toks = << >> \/ ~StartsWithAtoms(Ln(k).toks[1])

----------------------------------------------------------------------------
(* C10 *)

\* C10: each line of the rewritten Masses block carries the reference mass
\* of its element, printed with 8 decimals, whatever mass within the
\* tolerance the input gave for the type.
C10_ReferenceMass ==
    pc = "Done" =>
        /\ \A n \in 1..Len(new_type_to_element) :
              out.data[masses_start + 2 + n].toks[2]
                  = DecTok(RefMassOf(new_type_to_element[n]), 8)
        /\ \A t \in DeclaredTypes :
              LET written == out.data[masses_start + 2 + type_mapping[t]].toks[2].v
              IN  /\ Abs(MassAt(LastValid(t)) - written) < Tolerance
                  /\ written = RefMassOf(ElementAt(LastValid(t)))

\* a run has completed on an input whose mass differs from the reference
\* mass of the element it resolves to
C10_Witness ==
    /\ pc = "Done" /\ run = 1
    /\ \E t \in DeclaredTypes :
          MassAt(LastValid(t)) # RefMassOf(ElementAt(LastValid(t)))

====
